---- MODULE Spec2Model ----
(***************************************************************************)
(* Model of the Notion synchronisation engine of turanbrkay/NotionEditor:  *)
(*   src/sync/client.py          NotionClient (page creation, batching,    *)
(*                               recursive level-by-level upload)          *)
(*   src/sync/sync_to_notion.py  prune_empty_blocks / notion_blockify      *)
(*   src/sync/send_json_to_notion.py  command-line entry point             *)
(*                                                                         *)
(* Python values are tagged records [py |-> kind, v |-> value]: a dict is  *)
(* a function from key strings to Python values, a list is a sequence of   *)
(* Python values.                                                          *)
(***************************************************************************)
EXTENDS Integers, Sequences, FiniteSets, TLC

-----------------------------------------------------------------------------
(* Python values *)

PyList(s) == [py |-> "list", v |-> s]
PyDict(d) == [py |-> "dict", v |-> d]
PyStr(s) == [py |-> "str", v |-> s]
PyInt(n) == [py |-> "int", v |-> n]
PyBool(b) == [py |-> "bool", v |-> b]
PyNone == [py |-> "none", v |-> 0]

EmptyDict == PyDict([k \in {} |-> PyNone])
EmptyList == PyList(<<>>)

IsList(x) == x.py = "list"
IsDict(x) == x.py = "dict"

\* Python truth value of x (bool(x)).
Truthy(x) ==
  CASE x.py = "list" -> Len(x.v) > 0
    [] x.py = "dict" -> DOMAIN x.v # {}
    [] x.py = "str" -> x.v # ""
    [] x.py = "int" -> x.v # 0
    [] x.py = "bool" -> x.v
    [] OTHER -> FALSE

\* a or b
PyOr(a, b) == IF Truthy(a) THEN a ELSE b

\* k in d, for a dict d and a Python value k used as key (JSON keys are str).
HasKey(d, k) == k.py = "str" /\ k.v \in DOMAIN d.v

\* "name" in d, for a literal key.
Has(d, name) == name \in DOMAIN d.v

\* d.get(name, default)
Get(d, name, default) == IF name \in DOMAIN d.v THEN d.v[name] ELSE default

\* d.pop(name, None), as the dict that is left.
Pop(d, name) == PyDict([k \in DOMAIN d.v \ {name} |-> d.v[k]])

\* d[name] = val, as the dict that results.
SetItem(d, name, val) ==
  PyDict([k \in DOMAIN d.v \cup {name} |-> IF k = name THEN val ELSE d.v[k]])

\* str.strip() on the text values the model uses: leading and trailing
\* whitespace removed.
strip(s) ==
  CASE s = " " -> ""
    [] s = " a " -> "a"
    [] OTHER -> s

Min(a, b) == IF a < b THEN a ELSE b

-----------------------------------------------------------------------------
(* client.py: NotionClient.upload_blocks_recursively, pure parts *)

\* Line 148: blocks.get("children") or blocks.get("results") or []
\* for the `{ "children": [...] }` shape; any other value is left as it is.
Unwrap(blocks) ==
  IF IsDict(blocks)
  THEN PyOr(PyOr(Get(blocks, "children", PyNone), Get(blocks, "results", PyNone)),
            EmptyList)
  ELSE blocks

\* The key of a dict-shaped `blocks` whose value line 148 selects
\* ("none": the fresh empty list).
UnwrapKey(blocks) ==
  IF Truthy(Get(blocks, "children", PyNone)) THEN "children"
  ELSE IF Truthy(Get(blocks, "results", PyNone)) THEN "results"
  ELSE "none"

\* Lines 167-173 left out: the payload keeps its "children".
KeepTypePayload(b_copy) == b_copy

\* Lines 167-173 with the copy of the type payload taken before the pop.
StripTypePayload(b_copy) ==
  LET type_name == Get(b_copy, "type", PyNone)
  IN IF Truthy(type_name) /\ HasKey(b_copy, type_name)
     THEN LET type_obj == b_copy.v[type_name.v]
          IN IF IsDict(type_obj) /\ Has(type_obj, "children")
             THEN SetItem(b_copy, type_name.v, Pop(type_obj, "children"))
             ELSE b_copy
     ELSE b_copy

\* Lines 160-173 without line 171 (type_obj.copy()): the pop reaches the
\* payload dict the caller's block shares with its shallow copy.
WireCopyAliased(b) ==
  LET stripped == StripTypePayload(Pop(Pop(b, "id"), "children"))
      type_name == Get(b, "type", PyNone)
  IN [copy |-> stripped,
      orig |-> IF Truthy(type_name) /\ HasKey(stripped, type_name)
               THEN SetItem(b, type_name.v, stripped.v[type_name.v])
               ELSE b]

\* Lines 160-173 for one dict b: the wire-shape copy appended to
\* blocks_to_upload, and the caller's block as the code leaves it.
WireCopy(b) ==
  [copy |-> StripTypePayload(Pop(Pop(b, "id"), "children")),
   orig |-> b]

\* Lines 187-192: where the children of `original` are read from.
\* "top": original["children"]; "payload": original[type]["children"];
\* "none": the local empty list.
ChildKey(original) ==
  LET type_name == Get(original, "type", PyNone)
  IN IF Has(original, "children") THEN "top"
     ELSE IF Truthy(type_name) /\ HasKey(original, type_name)
             /\ IsDict(original.v[type_name.v])
             /\ Has(original.v[type_name.v], "children") THEN "payload"
     ELSE "none"

\* Line 192 raises AttributeError when the type payload has no .get
\* (it is not a dict).
ChildLookupRaises(original) ==
  LET type_name == Get(original, "type", PyNone)
  IN /\ ~Has(original, "children")
     /\ Truthy(type_name) /\ HasKey(original, type_name)
     /\ ~IsDict(original.v[type_name.v])

\* Lines 188-192: the value bound to `children`.
ChildrenValue(original, key) ==
  CASE key = "top" -> original.v["children"]
    [] key = "payload" -> original.v[original.v["type"].v].v["children"]
    [] OTHER -> EmptyList

ChildrenOf(original) == ChildrenValue(original, ChildKey(original))

\* The value a path designates inside the caller's tree: each step takes
\* element i of the (unwrapped) list and then its children under `key`.
RECURSIVE ArgValue(_, _)
ArgValue(val, path) ==
  IF path = <<>> THEN val
  ELSE LET b == Unwrap(val).v[Head(path).i]
       IN ArgValue(ChildrenValue(b, Head(path).key), Tail(path))

\* The caller's tree after the list at `path` has become `newlist`
\* (the list objects are shared, so a change made through a callee's
\* reference is a change of the caller's tree).
RECURSIVE StoreArg(_, _, _)
StoreArg(val, path, newlist) ==
  IF path = <<>>
  THEN IF IsDict(val)
       THEN IF UnwrapKey(val) = "none" THEN val
            ELSE SetItem(val, UnwrapKey(val), PyList(newlist))
       ELSE PyList(newlist)
  ELSE LET L == Unwrap(val).v
           st == Head(path)
           b == L[st.i]
           sub == StoreArg(ChildrenValue(b, st.key), Tail(path), newlist)
           b2 == IF st.key = "top" THEN SetItem(b, "children", sub)
                 ELSE LET tn == b.v["type"].v
                      IN SetItem(b, tn, SetItem(b.v[tn], "children", sub))
           L2 == [L EXCEPT ![st.i] = b2]
       IN IF IsDict(val) THEN SetItem(val, UnwrapKey(val), PyList(L2))
          ELSE PyList(L2)


-----------------------------------------------------------------------------
(* sync_to_notion.py: has_meaningful_text, prune_empty_blocks *)

\* Line 22: rt.get("plain_text") or rt.get("text", {}).get("content") or ""
SpanText(rt) ==
  PyOr(PyOr(Get(rt, "plain_text", PyNone),
            Get(Get(rt, "text", EmptyDict), "content", PyNone)),
       PyStr(""))

\* Line 22 raises AttributeError: the span or its "text" has no .get, or
\* the text found is not a str.
SpanRaises(rt) ==
  \/ ~IsDict(rt)
  \/ /\ ~Truthy(Get(rt, "plain_text", PyNone))
     /\ ~IsDict(Get(rt, "text", EmptyDict))
  \/ SpanText(rt).py # "str"

\* Lines 22-24 for one span: its text, stripped, is not empty.
SpanMeaningful(rt) == strip(SpanText(rt).v) # ""

\* The spans the loop of line 21 visits: up to the first meaningful one.
SpansVisited(rich_text_list) ==
  LET n == Len(rich_text_list.v)
      hits == {k \in 1..n : ~SpanRaises(rich_text_list.v[k])
                            /\ SpanMeaningful(rich_text_list.v[k])}
      bads == {k \in 1..n : SpanRaises(rich_text_list.v[k])}
      stop == {k \in 1..n : k \in hits \cup bads}
  IN IF stop = {} THEN 1..n
     ELSE 1..(CHOOSE k \in stop : \A m \in stop : k <= m)

TextRaises(rich_text_list) ==
  /\ IsList(rich_text_list)
  /\ \E k \in SpansVisited(rich_text_list) : SpanRaises(rich_text_list.v[k])

\* Lines 18-25.
has_meaningful_text(rich_text_list) ==
  /\ IsList(rich_text_list)
  /\ \E k \in SpansVisited(rich_text_list) :
       /\ ~SpanRaises(rich_text_list.v[k])
       /\ SpanMeaningful(rich_text_list.v[k])

\* Lines 47-49 with the divider test left out.
KeepWithoutDivider(is_divider, rich_text, cleaned_children) ==
  has_meaningful_text(rich_text) \/ Len(cleaned_children) > 0

\* Lines 47-49: keep = is_divider or has_meaningful_text(rich_text)
\*                    or bool(cleaned_children)
Keep(is_divider, rich_text, cleaned_children) ==
  is_divider \/ has_meaningful_text(rich_text) \/ Len(cleaned_children) > 0

\* Lines 32-33: blk_type and type_payload of a dict blk.
BlkType(blk) == Get(blk, "type", PyNone)
TypePayload(blk) ==
  IF Truthy(BlkType(blk)) /\ HasKey(blk, BlkType(blk))
  THEN blk.v[BlkType(blk).v] ELSE EmptyDict

\* Line 36: blk.get("children") or type_payload.get("children") or []
PruneChildren(blk) ==
  IF Truthy(Get(blk, "children", PyNone)) THEN blk.v["children"]
  ELSE IF IsDict(TypePayload(blk))
  THEN PyOr(Get(TypePayload(blk), "children", PyNone), EmptyList)
  ELSE EmptyList

\* Lines 40-43 alone: the cleaned children attached to the top-level
\* key, the type payload left as it is.
ReattachTopOnly(blk, cleaned_children) ==
  IF Len(cleaned_children) > 0
  THEN SetItem(blk, "children", PyList(cleaned_children))
  ELSE Pop(blk, "children")

\* Lines 40-45: the block after its cleaned children have been attached
\* to the top-level key and taken out of the type payload.
Reattach(blk, cleaned_children) ==
  LET b1 == IF Len(cleaned_children) > 0
            THEN SetItem(blk, "children", PyList(cleaned_children))
            ELSE Pop(blk, "children")
      t == BlkType(blk)
  IN IF Truthy(t) /\ HasKey(b1, t) /\ IsDict(b1.v[t.v])
        /\ Has(b1.v[t.v], "children")
     THEN SetItem(b1, t.v, Pop(b1.v[t.v], "children"))
     ELSE b1

\* Lines 28-52. The result holds: raised (an exception left the call),
\* out (the list returned), arg (the blocks of the argument list as the
\* call leaves them: the blocks returned are the caller's own objects)
\* and kept (the positions of the argument list that were kept).
RECURSIVE prune_empty_blocks(_)
prune_empty_blocks(blocks) ==
  IF ~Truthy(blocks)
  THEN [raised |-> FALSE, out |-> <<>>, arg |-> <<>>, kept |-> {}]
  ELSE IF ~IsList(blocks)
  THEN [raised |-> TRUE, out |-> <<>>, arg |-> <<>>, kept |-> {}]
  ELSE
    LET n == Len(blocks.v)
        one(blk) ==
          IF ~IsDict(blk) THEN [raised |-> TRUE, keep |-> FALSE, blk |-> blk]
          ELSE IF ~IsDict(TypePayload(blk))
          THEN [raised |-> TRUE, keep |-> FALSE, blk |-> blk]
          ELSE LET sub == prune_empty_blocks(PruneChildren(blk))
                   rich_text == Get(TypePayload(blk), "rich_text", EmptyList)
               IN [raised |-> \/ sub.raised
                              \/ /\ BlkType(blk) # PyStr("divider")
                                 /\ TextRaises(rich_text),
                   keep |-> Keep(BlkType(blk) = PyStr("divider"),
                                 rich_text, sub.out),
                   blk |-> Reattach(blk, sub.out)]
        rs == [k \in 1..n |-> one(blocks.v[k])]
        kept == {k \in 1..n : rs[k].keep}
        nth(m) == CHOOSE k \in kept : Cardinality({x \in kept : x < k}) = m - 1
    IN [raised |-> \E k \in 1..n : rs[k].raised,
        out |-> [m \in 1..Cardinality(kept) |-> rs[nth(m)].blk],
        arg |-> [k \in 1..n |-> rs[k].blk],
        kept |-> kept]

-----------------------------------------------------------------------------
(* sync_to_notion.py: notion_blockify *)

\* Line 62 with the payload stored under one fixed key.
PayloadKeyFixed(blk_type) == "payload"

\* The key under which line 62 stores the payload (blk_type is None when
\* the block has no "type").
PayloadKey(blk_type) == IF blk_type.py = "str" THEN blk_type.v ELSE "None"

\* Lines 66-71 left out: the payload as it came.
NoDefaults(blk_type, payload) == payload

\* Lines 66-71: the payload after the defaults of its type.
WithDefaults(blk_type, payload) ==
  LET p1 == IF blk_type = PyStr("to_do") /\ ~Has(payload, "checked")
            THEN SetItem(payload, "checked", PyBool(FALSE)) ELSE payload
      p2 == IF blk_type = PyStr("code") /\ ~Has(p1, "language")
            THEN SetItem(p1, "language", PyStr("plain text")) ELSE p1
  IN IF blk_type = PyStr("code") /\ Get(p2, "language", PyNone) = PyStr("cpp")
     THEN SetItem(p2, "language", PyStr("c++")) ELSE p2

\* Lines 55-77. The result holds: raised, result (the dict returned) and
\* block (the argument as the call leaves it: the payload is shared).
RECURSIVE notion_blockify(_)
notion_blockify(block) ==
  IF ~IsDict(block)
  THEN [raised |-> TRUE, result |-> block, block |-> block]
  ELSE
    LET blk_type == Get(block, "type", PyNone)
        shared == HasKey(block, blk_type)
        payload0 == IF shared THEN block.v[blk_type.v] ELSE EmptyDict
    IN IF ~IsDict(payload0)
       THEN [raised |-> TRUE, result |-> block, block |-> block]
       ELSE
         LET payload == WithDefaults(blk_type, payload0)
             block1 == IF shared THEN SetItem(block, blk_type.v, payload)
                       ELSE block
             children == PyOr(Get(block, "children", PyNone),
                              Get(payload, "children", PyNone))
             base(pl) ==
               SetItem(SetItem(SetItem(EmptyDict, "object", PyStr("block")),
                               "type", blk_type),
                       PayloadKey(blk_type), pl)
         IN IF ~Truthy(children)
            THEN [raised |-> FALSE, result |-> base(payload), block |-> block1]
            ELSE IF ~IsList(children)
            THEN [raised |-> TRUE, result |-> base(payload), block |-> block1]
            ELSE
              LET subs == [k \in 1..Len(children.v) |->
                             notion_blockify(children.v[k])]
                  kids == PyList([k \in 1..Len(children.v) |-> subs[k].block])
                  viaTop == Truthy(Get(block, "children", PyNone))
                  payload2 == IF viaTop THEN payload
                              ELSE SetItem(payload, "children", kids)
                  block2 == IF viaTop THEN SetItem(block1, "children", kids)
                            ELSE SetItem(block1, blk_type.v, payload2)
              IN [raised |-> \E k \in 1..Len(children.v) : subs[k].raised,
                  result |-> SetItem(base(payload2), "children",
                               PyList([k \in 1..Len(children.v) |->
                                         subs[k].result])),
                  block |-> block2]

-----------------------------------------------------------------------------
(* sync_to_notion.py: load_blocks_from_json, lines 89-90 *)

\* blocks = prune_empty_blocks(blocks); blocks = [notion_blockify(b) ...].
\* The result holds: raised, blocks (the list bound to `blocks` at the
\* end) and arg (the argument as the two calls leave it).
Normalize(blocks) ==
  LET r == prune_empty_blocks(blocks)
      n == Len(r.out)
      rs == [m \in 1..n |-> notion_blockify(r.out[m])]
      rank(k) == Cardinality({x \in r.kept : x <= k})
  IN IF r.raised
     THEN [raised |-> TRUE, blocks |-> PyNone, arg |-> blocks]
     ELSE [raised |-> \E m \in 1..n : rs[m].raised,
           blocks |-> PyList([m \in 1..n |-> rs[m].result]),
           arg |-> IF Truthy(blocks)
                   THEN PyList([k \in 1..Len(r.arg) |->
                                  IF k \in r.kept THEN rs[rank(k)].block
                                  ELSE r.arg[k]])
                   ELSE blocks]

-----------------------------------------------------------------------------
(* State *)

VARIABLES
  blocks_json,  \* the caller's block tree (the object main passes down)
  pc,           \* position of main: "main", "create_page", "upload",
                \* "raised", "exit0", "exit1"
  stack,        \* activation records of upload_blocks_recursively
  exc,          \* the exception in flight (type "none": no exception)
  page_data,    \* create_page_from_raw_blocks: response.json() of the POST
  response,     \* main: what create_page_from_raw_blocks returned
  remote,       \* the service: blocks created so far, in creation order
  remote_pages, \* the service: identifiers of the pages created so far
  writes,       \* every remote write issued so far, with its answer
  stdout,       \* lines printed so far
  file_blocks,  \* the block array as it stands in the input file
  main_blocks   \* load_blocks_from_json: the local `blocks` (lines 89-90)

vars == <<blocks_json, pc, stack, exc, page_data, response, remote,
          remote_pages, writes, stdout, file_blocks, main_blocks>>

\* Line 122: Notion API limit of blocks per request.
batch_size == 100

NoExc == [type |-> "none", msg |-> "", status |-> 0, text |-> ""]
NoPage == PyNone

\* The identifier the service gives to its next object.
NextId == PyInt(Cardinality(remote_pages) + Len(remote) + 1)

\* Non-success answers of the service.
ServiceFailures ==
  { [status |-> 400, text |-> "validation_error"],
    [status |-> 502, text |-> "bad_gateway"] }

\* How the service answers a successful append: "ok" creates one block per
\* submitted block and lists them in request order; "scrambled" creates
\* them and lists them in reverse order; "short" creates and lists all but
\* the last one.
AppendModes == {"ok", "scrambled", "short"}

Reverse(s) == [k \in 1..Len(s) |-> s[Len(s) + 1 - k]]

\* The blocks the service creates under block_id for one append request.
ServiceCreate(block_id, batch, mode, first_id) ==
  LET n == IF mode = "short" THEN Len(batch) - 1 ELSE Len(batch)
  IN [k \in 1..n |-> [id |-> PyInt(first_id + k - 1),
                      parent |-> block_id,
                      block |-> batch[k]]]

\* The "results" array of the answer.
ServiceResults(created, mode) ==
  LET descr == [k \in 1..Len(created) |-> PyDict([id |-> created[k].id])]
  IN IF mode = "scrambled" THEN Reverse(descr) ELSE descr


-----------------------------------------------------------------------------
(* client.py: the activation records of upload_blocks_recursively *)

\* A call upload_blocks_recursively(parent_id, blocks), `blocks` being the
\* value at `path` of the caller's tree; phase "enter" is line 143,
\* "append" the loop of append_block_children (line 123), "zip" the loop
\* of line 185.
Frame(parent_id, path) ==
  [parent_id |-> parent_id, path |-> path, phase |-> "enter",
   blocks_to_upload |-> <<>>, i |-> 0, all_results |-> <<>>,
   created_blocks |-> <<>>, zi |-> 1]

Top == stack[Len(stack)]
Return == SubSeq(stack, 1, Len(stack) - 1)
WithTop(f) == [stack EXCEPT ![Len(stack)] = f]

\* The local variable `blocks` of a call once line 148 has run.
BlocksOf(f) == Unwrap(ArgValue(blocks_json, f.path))

Running(phase) ==
  /\ pc = "upload"
  /\ exc = NoExc
  /\ stack # <<>>
  /\ Top.phase = phase

Raise(type, msg, status, text) ==
  [type |-> type, msg |-> msg, status |-> status, text |-> text]

\* Line 124 as children[i:]: the rest of the list in one request.
BatchRest(children, i) == SubSeq(children, i + 1, Len(children))

\* Line 124: children[i:i+batch_size]
Batch(children, i) ==
  SubSeq(children, i + 1, Min(i + batch_size, Len(children)))

\* Line 185 pairing by creation order instead: the j-th oldest created block.
PairedByAge(created_blocks, j) ==
  CHOOSE c \in {created_blocks[k] : k \in 1..Len(created_blocks)} :
    Cardinality({k \in 1..Len(created_blocks) :
                   created_blocks[k].v["id"].v < c.v["id"].v}) = j - 1

\* Line 185: zip(blocks, created_blocks) pairs by position.
Paired(created_blocks, j) == created_blocks[j]

\* Lines 185-194: the first position from zi on at which the loop body
\* either calls upload_blocks_recursively or raises; 0 when the loop ends
\* without doing either.
NextCall(blocks, created_blocks, zi) ==
  LET n == Min(Len(blocks), Len(created_blocks))
      hits == {j \in zi..n : \/ ChildLookupRaises(blocks[j])
                             \/ Truthy(ChildrenOf(blocks[j]))}
  IN IF hits = {} THEN 0
     ELSE CHOOSE j \in hits : \A k \in hits : j <= k

\* Line 181 left out: the loop of line 185 runs whatever the lengths.
NoShapeCheck(created_blocks, blocks) == FALSE

\* Line 181: the shape check after the level has been uploaded.
Mismatch(created_blocks, blocks) == Len(created_blocks) # Len(blocks)

-----------------------------------------------------------------------------
\* Lines 157-158 left out: the blocks before the first element that is
\* not a dict are prepared and go on to be uploaded.
EnterUnchecked ==
  /\ Running("enter")
  /\ LET f == Top
         arg == ArgValue(blocks_json, f.path)
         blocks == Unwrap(arg)
     IN IF ~Truthy(arg)
        THEN /\ stack' = Return
             /\ UNCHANGED <<blocks_json, exc>>
        ELSE IF ~IsList(blocks)
        THEN /\ exc' = Raise("TypeError", "Expected a list of blocks", 0, "")
             /\ UNCHANGED <<blocks_json, stack>>
        ELSE LET bad == {k \in 1..Len(blocks.v) : ~IsDict(blocks.v[k])}
                 done == IF bad = {} THEN Len(blocks.v)
                         ELSE (CHOOSE k \in bad : \A m \in bad : k <= m) - 1
                 copies == [k \in 1..done |-> WireCopy(blocks.v[k])]
                 after == [k \in 1..Len(blocks.v) |->
                             IF k <= done THEN copies[k].orig ELSE blocks.v[k]]
             IN /\ blocks_json' = StoreArg(blocks_json, f.path, after)
                /\ stack' = WithTop(
                      [f EXCEPT !.phase = "append",
                                !.blocks_to_upload =
                                   [k \in 1..done |-> copies[k].copy]])
                /\ UNCHANGED exc
  /\ UNCHANGED <<pc, page_data, response, remote, remote_pages, writes, stdout>>
  /\ UNCHANGED <<file_blocks, main_blocks>>

(* client.py: upload_blocks_recursively, lines 143-175 *)

Enter ==
  /\ Running("enter")
  /\ LET f == Top
         arg == ArgValue(blocks_json, f.path)
         blocks == Unwrap(arg)
     IN IF ~Truthy(arg)
        THEN /\ stack' = Return
             /\ UNCHANGED <<blocks_json, exc>>
        ELSE IF ~IsList(blocks)
        THEN /\ exc' = Raise("TypeError", "Expected a list of blocks", 0, "")
             /\ UNCHANGED <<blocks_json, stack>>
        ELSE LET bad == {k \in 1..Len(blocks.v) : ~IsDict(blocks.v[k])}
                 done == IF bad = {} THEN Len(blocks.v)
                         ELSE (CHOOSE k \in bad : \A m \in bad : k <= m) - 1
                 copies == [k \in 1..done |-> WireCopy(blocks.v[k])]
                 after == [k \in 1..Len(blocks.v) |->
                             IF k <= done THEN copies[k].orig ELSE blocks.v[k]]
             IN /\ blocks_json' = StoreArg(blocks_json, f.path, after)
                /\ IF bad # {}
                   THEN /\ exc' = Raise("TypeError",
                                        "Each block should be a dict", 0, "")
                        /\ UNCHANGED stack
                   ELSE /\ stack' = WithTop(
                             [f EXCEPT !.phase = "append",
                                       !.blocks_to_upload =
                                          [k \in 1..done |-> copies[k].copy]])
                        /\ UNCHANGED exc
  /\ UNCHANGED <<pc, page_data, response, remote, remote_pages, writes, stdout>>
  /\ UNCHANGED <<file_blocks, main_blocks>>

(* client.py: append_block_children, one pass of the loop of line 123 *)

AppendBatch ==
  /\ Running("append")
  /\ Top.i < Len(Top.blocks_to_upload)
  /\ LET f == Top
         batch == Batch(f.blocks_to_upload, f.i)
         payload == PyDict([children |-> PyList(batch)])
     IN \/ \E mode \in AppendModes :
             LET created == ServiceCreate(f.parent_id, batch, mode, NextId.v)
                 results == ServiceResults(created, mode)
             IN /\ remote' = remote \o created
                /\ writes' = Append(writes,
                      [method |-> "PATCH", target |-> f.parent_id,
                       payload |-> payload, path |-> f.path,
                       status |-> 200, text |-> "", results |-> results])
                /\ stack' = WithTop([f EXCEPT
                                       !.all_results = @ \o results,
                                       !.i = @ + batch_size])
                /\ UNCHANGED exc
        \/ \E r \in ServiceFailures :
             /\ writes' = Append(writes,
                   [method |-> "PATCH", target |-> f.parent_id,
                    payload |-> payload, path |-> f.path,
                    status |-> r.status, text |-> r.text, results |-> <<>>])
             /\ exc' = Raise("Exception", "Failed to append children",
                             r.status, r.text)
             /\ UNCHANGED <<remote, stack>>
  /\ UNCHANGED <<blocks_json, pc, page_data, response, remote_pages, stdout>>
  /\ UNCHANGED <<file_blocks, main_blocks>>

\* The loop of line 185 entered as soon as one batch has been answered,
\* with the created blocks returned so far.
AppendDonePerBatch ==
  /\ Running("append")
  /\ Top.i > 0 \/ Len(Top.blocks_to_upload) = 0
  /\ stack' = WithTop([Top EXCEPT !.phase = "zip",
                                  !.created_blocks = Top.all_results,
                                  !.zi = 1])
  /\ UNCHANGED <<blocks_json, pc, exc, page_data, response, remote,
                 remote_pages, writes, stdout>>
  /\ UNCHANGED <<file_blocks, main_blocks>>

(* client.py: line 134 (return all_results) and lines 178-183 *)

AppendDone ==
  /\ Running("append")
  /\ Top.i >= Len(Top.blocks_to_upload)
  /\ LET f == Top
         created_blocks == f.all_results
         blocks == BlocksOf(f).v
     IN IF Mismatch(created_blocks, blocks)
        THEN /\ stdout' = Append(stdout, "Warning: Mismatch in uploaded blocks count")
             /\ stack' = Return
        ELSE /\ stack' = WithTop([f EXCEPT !.phase = "zip",
                                           !.created_blocks = created_blocks,
                                           !.zi = 1])
             /\ UNCHANGED stdout
  /\ UNCHANGED <<blocks_json, pc, exc, page_data, response, remote,
                 remote_pages, writes>>
  /\ UNCHANGED <<file_blocks, main_blocks>>

(* client.py: the loop of lines 185-195, up to its next call *)

Recurse ==
  /\ Running("zip")
  /\ LET f == Top
         blocks == BlocksOf(f).v
         j == NextCall(blocks, f.created_blocks, f.zi)
     IN IF j = 0
        THEN /\ stack' = Return
             /\ UNCHANGED exc
        ELSE IF ChildLookupRaises(blocks[j])
        THEN /\ exc' = Raise("AttributeError", "object has no attribute 'get'", 0, "")
             /\ UNCHANGED stack
        ELSE /\ stack' = Append(WithTop([f EXCEPT !.zi = j + 1]),
                                Frame(Paired(f.created_blocks, j).v["id"],
                                      Append(f.path, [i |-> j,
                                                      key |-> ChildKey(blocks[j])])))
             /\ UNCHANGED exc
  /\ UNCHANGED <<blocks_json, pc, page_data, response, remote, remote_pages,
                 writes, stdout>>
  /\ UNCHANGED <<file_blocks, main_blocks>>

\* A handler around the recursive call of line 195 that drops the
\* exception and goes on with the caller's loop.
UnwindSwallowed ==
  /\ pc = "upload"
  /\ exc # NoExc
  /\ stack # <<>>
  /\ stack' = Return
  /\ exc' = NoExc
  /\ UNCHANGED <<blocks_json, pc, page_data, response, remote,
                 remote_pages, writes, stdout>>
  /\ UNCHANGED <<file_blocks, main_blocks>>

\* upload_blocks_recursively has no handler: an exception leaves the call.
Unwind ==
  /\ pc = "upload"
  /\ exc # NoExc
  /\ stack # <<>>
  /\ stack' = Return
  /\ UNCHANGED <<blocks_json, pc, exc, page_data, response, remote,
                 remote_pages, writes, stdout>>
  /\ UNCHANGED <<file_blocks, main_blocks>>


-----------------------------------------------------------------------------
(* client.py: create_page_from_raw_blocks; send_json_to_notion.py: main *)

parent_page_id == PyStr("parent-page")
page_title == PyStr("NotionViewer Export")

\* Lines 204-217: the body of the create-page request.
CreatePayloadWithChildren(parent, title, blocks) ==
  PyDict([parent |-> PyDict([page_id |-> parent]),
          properties |-> PyDict([title |-> title]),
          children |-> blocks])

CreatePayload(parent, title, blocks) ==
  PyDict([parent |-> PyDict([page_id |-> parent]),
          properties |-> PyDict([title |-> title])])

\* main, lines 19-59: the input file, the JSON in it, the API key and the
\* parent page id are checked in this order before the client is built.
MainStart ==
  /\ pc = "main"
  /\ \E file_exists, json_ok, api_key, parent_ok \in BOOLEAN :
       IF ~file_exists
       THEN /\ stdout' = Append(stdout, "Hata: JSON dosyasi bulunamadi")
            /\ pc' = "exit1"
       ELSE IF ~json_ok
       THEN /\ stdout' = Append(stdout, "JSON okunurken hata")
            /\ pc' = "exit1"
       ELSE IF ~api_key
       THEN /\ stdout' = Append(stdout, "Hata: NOTION_API_KEY bulunamadi")
            /\ pc' = "exit1"
       ELSE IF ~parent_ok
       THEN /\ stdout' = Append(stdout, "Hata: NOTION_PARENT_PAGE_ID bulunamadi")
            /\ pc' = "exit1"
       ELSE /\ pc' = "create_page"
            /\ UNCHANGED stdout
  /\ UNCHANGED <<blocks_json, stack, exc, page_data, response, remote,
                 remote_pages, writes>>
  /\ UNCHANGED <<file_blocks, main_blocks>>

\* create_page_from_raw_blocks, lines 201-224 and the call of line 228.
CreatePage ==
  /\ pc = "create_page"
  /\ LET payload == CreatePayload(parent_page_id, page_title, blocks_json)
     IN \/ /\ page_data' = PyDict([id |-> NextId,
                                   url |-> PyStr("https://www.notion.so/page")])
           /\ remote_pages' = remote_pages \cup {NextId}
           /\ writes' = Append(writes,
                 [method |-> "POST", target |-> PyStr("pages"),
                  payload |-> payload, path |-> <<>>,
                  status |-> 200, text |-> "", results |-> <<>>])
           /\ stack' = <<Frame(NextId, <<>>)>>
           /\ pc' = "upload"
           /\ UNCHANGED exc
        \/ \E r \in ServiceFailures :
             /\ writes' = Append(writes,
                   [method |-> "POST", target |-> PyStr("pages"),
                    payload |-> payload, path |-> <<>>,
                    status |-> r.status, text |-> r.text, results |-> <<>>])
             /\ exc' = Raise("Exception", "Failed to create page",
                             r.status, r.text)
             /\ pc' = "raised"
             /\ UNCHANGED <<page_data, remote_pages, stack>>
  /\ UNCHANGED <<blocks_json, response, remote, stdout>>
  /\ UNCHANGED <<file_blocks, main_blocks>>

\* create_page_from_raw_blocks, lines 229-233: print and re-raise.
HandleUploadError ==
  /\ pc = "upload"
  /\ stack = <<>>
  /\ exc # NoExc
  /\ stdout' = Append(stdout, "Error uploading blocks recursively")
  /\ pc' = "raised"
  /\ UNCHANGED <<blocks_json, stack, exc, page_data, response, remote,
                 remote_pages, writes>>
  /\ UNCHANGED <<file_blocks, main_blocks>>

\* create_page_from_raw_blocks, line 235, and main, lines 64-66.
ReturnPage ==
  /\ pc = "upload"
  /\ stack = <<>>
  /\ exc = NoExc
  /\ response' = page_data
  /\ stdout' = Append(stdout, "Sayfa olusturuldu!")
  /\ pc' = "exit0"
  /\ UNCHANGED <<blocks_json, stack, exc, page_data, remote, remote_pages,
                 writes>>
  /\ UNCHANGED <<file_blocks, main_blocks>>

\* main, lines 67-69: the exception reaches main, which holds only `e`.
MainExcept ==
  /\ pc = "raised"
  /\ stdout' = Append(stdout, "Notion'a gonderirken hata")
  /\ pc' = "exit1"
  /\ UNCHANGED <<blocks_json, stack, exc, page_data, response, remote,
                 remote_pages, writes>>
  /\ UNCHANGED <<file_blocks, main_blocks>>


-----------------------------------------------------------------------------
(* Inputs: the JSON values main may hand to create_page_from_raw_blocks *)

\* Largest number of blocks in a generated tree.
MaxNodes == 3
\* Largest number of siblings in a generated flat list.
MaxWide == 250

RichText(t) == PyList(<<PyDict([plain_text |-> PyStr(t)])>>)

\* Blocks without children.
LeafBlocks ==
  { PyDict([type |-> PyStr("paragraph"),
            paragraph |-> PyDict([rich_text |-> RichText("a")])]),
    PyDict([id |-> PyStr("local-1"), type |-> PyStr("to_do"),
            to_do |-> PyDict([rich_text |-> RichText("a")]),
            children |-> EmptyList]),
    PyDict([type |-> PyStr("paragraph"), paragraph |-> PyStr("a")]),
    PyStr("a") }

\* Blocks carrying the child list c: under the top-level key, inside the
\* type payload, inside the payload next to an empty top-level list, and
\* inside a payload no "type" key names.
ParentBlocks(c) ==
  { PyDict([id |-> PyStr("local-2"), type |-> PyStr("heading_1"),
            heading_1 |-> PyDict([rich_text |-> RichText("a")]),
            children |-> c]),
    PyDict([type |-> PyStr("paragraph"),
            paragraph |-> PyDict([rich_text |-> RichText("a"),
                                  children |-> c])]),
    PyDict([type |-> PyStr("paragraph"),
            paragraph |-> PyDict([rich_text |-> RichText("a"),
                                  children |-> c]),
            children |-> EmptyList]),
    PyDict([paragraph |-> PyDict([children |-> c])]) }

\* The sequences of blocks with exactly n blocks in all, and the blocks
\* with exactly n blocks in their subtree.
RECURSIVE ForestsOfSize(_), TreesOfSize(_)
ForestsOfSize(n) ==
  IF n = 0 THEN {<<>>}
  ELSE UNION { { <<t>> \o rest : t \in TreesOfSize(k),
                                 rest \in ForestsOfSize(n - k) } : k \in 1..n }

TreesOfSize(n) ==
  IF n = 1 THEN LeafBlocks
  ELSE UNION { ParentBlocks(PyList(c)) : c \in ForestsOfSize(n - 1) }

SmallInputs == UNION { { PyList(f) : f \in ForestsOfSize(n) } : n \in 0..MaxNodes }

\* The `{ "children": [...] }` and `{ "results": [...] }` shapes, and
\* values that are neither a list nor such a dict.
ShapedInputs ==
  UNION { { PyDict([children |-> PyList(f)]),
            PyDict([results |-> PyList(f)]),
            PyDict([children |-> EmptyList, results |-> PyList(f)]) }
          : f \in ForestsOfSize(0) \cup ForestsOfSize(1) \cup ForestsOfSize(2) }
  \cup { EmptyDict, PyNone, PyStr("a"), PyStr(""),
         PyDict([children |-> PyStr("a")]), PyDict([title |-> PyStr("a")]) }

\* Flat sibling lists around the multiples of the batch size; optionally
\* the last block, or the first one, carries one child.
WideSizes ==
  { n \in 1..MaxWide : n % batch_size \in {0, 1, batch_size - 1} } \cup {MaxWide}

WideBlock(k) ==
  PyDict([type |-> PyStr("paragraph"),
          paragraph |-> PyDict([rich_text |-> RichText("a"), seq |-> PyInt(k)])])

WideInputs ==
  { PyList([k \in 1..n |-> WideBlock(k)]) : n \in WideSizes }
  \cup
  { PyList([k \in 1..n |->
              IF k = n
              THEN SetItem(WideBlock(k), "children", PyList(<<WideBlock(0)>>))
              ELSE WideBlock(k)]) : n \in WideSizes }
  \cup
  { PyList([k \in 1..n |->
              IF k = 1
              THEN SetItem(WideBlock(k), "children", PyList(<<WideBlock(0)>>))
              ELSE WideBlock(k)]) : n \in WideSizes }

Inputs == SmallInputs \cup ShapedInputs \cup WideInputs

-----------------------------------------------------------------------------
(* The program: send_json_to_notion.main over NotionClient *)

Init ==
  /\ blocks_json \in Inputs
  /\ file_blocks = blocks_json
  /\ main_blocks = PyNone
  /\ pc = "main"
  /\ stack = <<>>
  /\ exc = NoExc
  /\ page_data = NoPage
  /\ response = NoPage
  /\ remote = <<>>
  /\ remote_pages = {}
  /\ writes = <<>>
  /\ stdout = <<>>

Next ==
  \/ MainStart
  \/ CreatePage
  \/ Enter
  \/ AppendBatch
  \/ AppendDone
  \/ Recurse
  \/ Unwind
  \/ HandleUploadError
  \/ ReturnPage
  \/ MainExcept

Spec == Init /\ [][Next]_vars

TypeOK ==
  /\ pc \in {"main", "create_page", "upload", "raised", "exit0", "exit1",
             "load", "pruned", "loaded"}
  /\ exc.type \in {"none", "Exception", "TypeError", "AttributeError",
                  "ValueError"}


-----------------------------------------------------------------------------
(* Reading the history of remote writes *)

RECURSIVE Flatten(_)
Flatten(ss) == IF ss = <<>> THEN <<>> ELSE Head(ss) \o Flatten(Tail(ss))

\* The append writes issued for the level at path p among the first n
\* writes, in the order they were issued.
RECURSIVE LevelWrites(_, _)
LevelWrites(p, n) ==
  IF n = 0 THEN <<>>
  ELSE IF writes[n].method = "PATCH" /\ writes[n].path = p
       THEN Append(LevelWrites(p, n - 1), writes[n])
       ELSE LevelWrites(p, n - 1)

\* The blocks sent for, and the created blocks returned for, the level at
\* path p in the first n writes.
LevelSent(p, n) ==
  LET ws == LevelWrites(p, n)
  IN Flatten([k \in 1..Len(ws) |-> ws[k].payload.v["children"].v])

LevelCreated(p, n) ==
  LET ws == LevelWrites(p, n)
  IN Flatten([k \in 1..Len(ws) |-> ws[k].results])

Front(p) == SubSeq(p, 1, Len(p) - 1)
Last(p) == p[Len(p)]

AppendWrites == {n \in 1..Len(writes) : writes[n].method = "PATCH"}
ChildWrites == {n \in AppendWrites : writes[n].path # <<>>}

\* The block of the caller's tree whose children the write n uploads.
OwnerOf(n) ==
  LET p == writes[n].path
  IN Unwrap(ArgValue(blocks_json, Front(p))).v[Last(p).i]

\* The service's block with identifier id.
RemoteBlock(id) ==
  (CHOOSE k \in 1..Len(remote) : remote[k].id = id)

-----------------------------------------------------------------------------
(* C1 *)

\* C1: pairing of submitted and created blocks is positional. Whenever the
\* children of blocks[i] of a level are uploaded, the parent id of that
\* write is the id of the i-th created block returned for the level, in
\* response order; the children of a block are sent in their input order,
\* and the children of blocks[i] are uploaded before those of a later
\* sibling.
PositionalPairing ==
  \A n \in ChildWrites :
    LET p == writes[n].path
        i == Last(p).i
        created == LevelCreated(Front(p), n)
        sent == LevelSent(p, n)
        children == Unwrap(ArgValue(blocks_json, p)).v
    IN /\ i <= Len(created)
       /\ writes[n].target = created[i].v["id"]
       /\ Len(sent) <= Len(children)
       /\ \A k \in 1..Len(sent) : sent[k] = WireCopy(children[k]).copy
       /\ \A m \in ChildWrites :
            (m < n /\ Front(writes[m].path) = Front(p)
               /\ Len(writes[m].path) = Len(p))
              => Last(writes[m].path).i <= i

\* A scrambled answer has attached children to the scrambled parent: the
\* block the service holds under the parent id of a child upload is not
\* the wire copy of the block that owns those children.
ScrambledParentReached ==
  \E n \in ChildWrites :
    /\ writes[n].status = 200
    /\ \E k \in 1..Len(remote) :
         /\ remote[k].id = writes[n].target
         /\ remote[k].block # WireCopy(OwnerOf(n)).copy

-----------------------------------------------------------------------------
(* C2 *)

\* C2: no block of any append request carries a client-side "id", a
\* top-level "children" or a "children" inside its type payload.
WireBlocksCarryNoChildren ==
  \A n \in AppendWrites :
    \A k \in 1..Len(writes[n].payload.v["children"].v) :
      LET b == writes[n].payload.v["children"].v[k]
          t == Get(b, "type", PyNone)
      IN /\ ~Has(b, "id")
         /\ ~Has(b, "children")
         /\ (t.py = "str" /\ Has(b, t.v) /\ IsDict(b.v[t.v]))
              => ~Has(b.v[t.v], "children")

\* A block with a client id, a top-level child list and a child list in
\* its type payload has been sent below the top level.
StrippedBlockSentBelowTop ==
  \E n \in ChildWrites :
    \E k \in 1..Len(writes[n].payload.v["children"].v) :
      LET src == Unwrap(ArgValue(blocks_json, writes[n].path)).v[k]
      IN \/ Has(src, "id") /\ Has(src, "children")
         \/ /\ Has(src, "children")
            /\ Has(src, "type") /\ Has(src, src.v["type"].v)
            /\ IsDict(src.v[src.v["type"].v])
            /\ Has(src.v[src.v["type"].v], "children")

-----------------------------------------------------------------------------
(* C3 *)

CeilDiv(a, b) == (a + b - 1) \div b

\* C3: batching is transparent. The writes of a level go to the same
\* parent and the k-th carries blocks 100(k-1)+1 .. min(100k, N) of the
\* level, in input order; when append_block_children returns there have
\* been exactly ceil(N/100) of them and the returned sequence is the
\* concatenation of their results, of length N when every batch returned
\* one created block per submitted block.
BatchingTransparent ==
  \A d \in 1..Len(stack) :
    LET f == stack[d]
        N == Len(f.blocks_to_upload)
        ws == LevelWrites(f.path, Len(writes))
        finished == f.phase = "zip"
                    \/ (f.phase = "append" /\ f.i >= N /\ exc = NoExc)
    IN /\ \A k \in 1..Len(ws) :
            /\ ws[k].target = f.parent_id
            /\ ws[k].payload.v["children"].v =
                 SubSeq(f.blocks_to_upload, 100 * (k - 1) + 1, Min(100 * k, N))
            /\ Len(ws[k].payload.v["children"].v) <= 100
            /\ Len(ws[k].payload.v["children"].v) >= 1
       /\ finished =>
            /\ Len(ws) = CeilDiv(N, 100)
            /\ (IF f.phase = "zip" THEN f.created_blocks ELSE f.all_results)
                 = Flatten([k \in 1..Len(ws) |-> ws[k].results])
            /\ (\A k \in 1..Len(ws) :
                  Len(ws[k].results) = Len(ws[k].payload.v["children"].v))
                 => Len(f.all_results) = N

\* A level of more than 200 siblings has been uploaded in three writes,
\* the last one not full.
ThreeBatchesReached ==
  \E d \in 1..Len(stack) :
    LET ws == LevelWrites(stack[d].path, Len(writes))
    IN /\ stack[d].phase = "zip"
       /\ Len(stack[d].blocks_to_upload) > 200
       /\ Len(ws) = 3
       /\ Len(ws[3].payload.v["children"].v) < 100
       /\ Len(stack[d].created_blocks) = Len(stack[d].blocks_to_upload)


-----------------------------------------------------------------------------
(* C4 *)

\* The tree the service holds under an identifier: its blocks created
\* under that parent, in creation order, each with its own subtree.
RECURSIVE RemoteTree(_)
RemoteTree(id) ==
  LET ks == {k \in 1..Len(remote) : remote[k].parent = id}
      nth(m) == CHOOSE k \in ks : Cardinality({x \in ks : x < k}) = m - 1
  IN [m \in 1..Cardinality(ks) |->
        [block |-> remote[nth(m)].block,
         children |-> RemoteTree(remote[nth(m)].id)]]

\* The children a block carries: those under its top-level "children" key
\* followed by those inside its type payload.
CarriedChildren(b) ==
  LET t == Get(b, "type", PyNone)
      top == IF Has(b, "children") /\ IsList(b.v["children"])
             THEN b.v["children"].v ELSE <<>>
      inner == IF t.py = "str" /\ Has(b, t.v) /\ IsDict(b.v[t.v])
                  /\ Has(b.v[t.v], "children")
                  /\ IsList(b.v[t.v].v["children"])
               THEN b.v[t.v].v["children"].v ELSE <<>>
  IN top \o inner

\* The tree that mirrors a list of input blocks.
RECURSIVE MirrorTree(_)
MirrorTree(blocks) ==
  [m \in 1..Len(blocks) |->
     [block |-> WireCopy(blocks[m]).copy,
      children |-> MirrorTree(CarriedChildren(blocks[m]))]]

\* Every append was answered with one created block per submitted block,
\* listed in request order.
ServiceInOrder ==
  \A n \in AppendWrites :
    /\ writes[n].status = 200
    /\ Len(writes[n].results) = Len(writes[n].payload.v["children"].v)
    /\ \A k \in 1..(Len(writes[n].results) - 1) :
         writes[n].results[k].v["id"].v < writes[n].results[k + 1].v["id"].v

\* C4: once the upload has returned without raising against a service
\* that creates one block per submitted block in request order, the tree
\* under the page mirrors the input tree: every block has a created node
\* under its parent's node and all the children it carries, under either
\* key, are appended under it in their original order.
RemoteMirrorsInput ==
  (pc = "exit0" /\ ServiceInOrder /\ IsList(blocks_json))
    => RemoteTree(page_data.v["id"]) = MirrorTree(blocks_json.v)

\* No block of the tree has both a top-level "children" key and a
\* "children" key inside its type payload.
RECURSIVE SingleChildKey(_)
SingleChildKey(blocks) ==
  \A m \in 1..Len(blocks) :
    LET b == blocks[m]
        t == Get(b, "type", PyNone)
    IN /\ ~(/\ Has(b, "children")
            /\ t.py = "str" /\ Has(b, t.v) /\ IsDict(b.v[t.v])
            /\ Has(b.v[t.v], "children"))
       /\ SingleChildKey(CarriedChildren(b))

\* The same statement for the trees in which the two keys never meet.
RemoteMirrorsSingleKeyInput ==
  (pc = "exit0" /\ ServiceInOrder /\ IsList(blocks_json)
     /\ SingleChildKey(blocks_json.v))
    => RemoteTree(page_data.v["id"]) = MirrorTree(blocks_json.v)


-----------------------------------------------------------------------------
(* C5 *)

LevelPaths == {writes[n].path : n \in AppendWrites}
LevelSize(p) == Len(Unwrap(ArgValue(blocks_json, p)).v)
Printed(line) == \E k \in 1..Len(stdout) : stdout[k] = line
CallEnded(p) == \A d \in 1..Len(stack) : stack[d].path # p

\* Every block of the level at p was sent and answered with success, and
\* the number of created blocks returned differs from the number sent.
MismatchedLevel(p) ==
  /\ Len(LevelSent(p, Len(writes))) = LevelSize(p)
  /\ \A n \in AppendWrites : writes[n].path = p => writes[n].status = 200
  /\ Len(LevelCreated(p, Len(writes))) # LevelSize(p)

\* C5: when the created blocks returned for a level are not as many as
\* the blocks submitted, no child upload is issued for any block of that
\* level, the call ends by printing the mismatch warning and not by an
\* exception (no index error), and the blocks created so far stay.
MismatchAborts ==
  /\ exc.type # "IndexError"
  /\ \A n \in AppendWrites : \A k \in 1..Len(writes[n].results) :
       \E j \in 1..Len(remote) : remote[j].id = writes[n].results[k].v["id"]
  /\ \A p \in LevelPaths :
       MismatchedLevel(p) =>
         /\ \A m \in ChildWrites : Front(writes[m].path) # p
         /\ CallEnded(p) => Printed("Warning: Mismatch in uploaded blocks count")
         /\ (CallEnded(p) /\ writes[Len(writes)].path = p)
              => exc.type \notin {"Exception", "IndexError"}

\* A level whose blocks carry children came back short, its call has
\* ended and the run has finished.
MismatchAbortReached ==
  \E p \in LevelPaths :
    /\ MismatchedLevel(p)
    /\ Len(LevelCreated(p, Len(writes))) >= 1
    /\ Truthy(ChildrenOf(Unwrap(ArgValue(blocks_json, p)).v[1]))
    /\ CallEnded(p)
    /\ Printed("Warning: Mismatch in uploaded blocks count")
    /\ pc = "exit0"
    /\ Len(remote) >= 1

-----------------------------------------------------------------------------
(* C6 *)

PageCreated == remote_pages # {}

\* Page creation succeeded and the first content append failed.
FirstAppendFailed ==
  /\ PageCreated
  /\ AppendWrites # {}
  /\ writes[CHOOSE n \in AppendWrites : \A m \in AppendWrites : n <= m].status # 200

\* C6: when page creation succeeds and the first content append fails,
\* the caller is told of the failure, the identifier and URL returned by
\* the creation are valid, non-empty and available to the caller, and the
\* page is still there.
PartialSuccessContract ==
  (FirstAppendFailed /\ pc \in {"exit0", "exit1"}) =>
    /\ pc = "exit1"
    /\ remote_pages # {}
    /\ IsDict(response)
    /\ Get(response, "id", PyNone) \in remote_pages
    /\ Truthy(Get(response, "url", PyNone))

\* What the code does keep of it: the failure is reported, the page stays
\* on the service, and create_page_from_raw_blocks held its identifier.
PartialSuccessPageKept ==
  (FirstAppendFailed /\ pc \in {"exit0", "exit1"}) =>
    /\ pc = "exit1"
    /\ exc.type = "Exception"
    /\ IsDict(page_data)
    /\ page_data.v["id"] \in remote_pages
    /\ Truthy(page_data.v["url"])
    /\ \A n \in 1..Len(writes) : writes[n].method \in {"POST", "PATCH"}

-----------------------------------------------------------------------------
(* C7 *)

\* C7: a non-success answer to an append write is the last remote write of
\* the run (no retry, no later batch, no sibling or child upload, no
\* delete), it travels as the exception out of every enclosing call and
\* out of create_page_from_raw_blocks so that nothing is returned to main,
\* and every block created before it stays on the service.
WriteFailureIsFinal ==
  /\ \A n \in 1..Len(writes) : writes[n].method \in {"POST", "PATCH"}
  /\ \A n \in AppendWrites : \A k \in 1..Len(writes[n].results) :
       \E j \in 1..Len(remote) :
         /\ remote[j].id = writes[n].results[k].v["id"]
         /\ remote[j].parent = writes[n].target
  /\ \A n \in AppendWrites :
       writes[n].status # 200 =>
         /\ n = Len(writes)
         /\ exc = Raise("Exception", "Failed to append children",
                        writes[n].status, writes[n].text)
         /\ pc \in {"upload", "raised", "exit1"}
         /\ response = NoPage
         /\ (pc = "upload" /\ stack = <<>>) => ~Printed("Error uploading blocks recursively")
         /\ pc \in {"raised", "exit1"} =>
              /\ stack = <<>>
              /\ Printed("Error uploading blocks recursively")

\* An append two levels below the page has failed after earlier writes
\* created blocks, and the failure has reached main.
NestedFailureReported ==
  \E n \in ChildWrites :
    /\ writes[n].status # 200
    /\ Len(writes[n].path) >= 2
    /\ Len(remote) >= 2
    /\ pc = "exit1"

-----------------------------------------------------------------------------
(* C8 *)

PostWrites == {n \in 1..Len(writes) : writes[n].method = "POST"}

\* C8: there is exactly one create-page write, it carries no children and
\* it is issued and answered before any append; when it is not answered
\* with success the operation fails with the status and body of the
\* answer and no append is ever issued.
PageCreatedFirst ==
  /\ PostWrites \subseteq {1}
  /\ pc \in {"upload", "raised", "exit0"} => PostWrites = {1}
  /\ AppendWrites # {} => (PostWrites = {1} /\ writes[1].status = 200)
  /\ \A n \in PostWrites :
       /\ ~Has(writes[n].payload, "children")
       /\ DOMAIN writes[n].payload.v = {"parent", "properties"}
       /\ writes[n].status # 200 =>
            /\ exc = Raise("Exception", "Failed to create page",
                           writes[n].status, writes[n].text)
            /\ AppendWrites = {}
            /\ remote = <<>>
            /\ pc \in {"raised", "exit1"}
            /\ response = NoPage

\* The create-page write was refused for a tree that has blocks, and the
\* run has ended.
PageRefusedReached ==
  /\ PostWrites = {1}
  /\ writes[1].status = 502
  /\ IsList(blocks_json) /\ Len(blocks_json.v) >= 2
  /\ pc = "exit1"

-----------------------------------------------------------------------------
(* C9 *)

\* C9: no step of the program changes the caller's block tree.
CallerTreeUntouched == [][blocks_json' = blocks_json]_vars

\* The upload has gone through a block that keeps its children inside its
\* type payload and has come back to main.
PayloadChildrenWalked ==
  /\ pc = "exit0"
  /\ \E n \in ChildWrites :
       /\ Last(writes[n].path).key = "payload"
       /\ Has(OwnerOf(n).v[OwnerOf(n).v["type"].v], "children")


-----------------------------------------------------------------------------
(* sync_to_notion.py: load_blocks_from_json, as main calls it (152-158) *)

\* Lines 85-89: data.get("blocks"), the ValueError when it is None, and
\* prune_empty_blocks; an exception ends main with exit code 1.
Prune ==
  /\ pc = "load"
  /\ IF blocks_json = PyNone
     THEN /\ exc' = Raise("ValueError",
                          "JSON file does not contain 'blocks' array", 0, "")
          /\ stdout' = Append(stdout, "Error reading JSON")
          /\ pc' = "exit1"
          /\ UNCHANGED <<blocks_json, main_blocks>>
     ELSE LET r == prune_empty_blocks(blocks_json)
          IN IF r.raised
             THEN /\ exc' = Raise("AttributeError",
                                  "object has no attribute 'get'", 0, "")
                  /\ stdout' = Append(stdout, "Error reading JSON")
                  /\ pc' = "exit1"
                  /\ UNCHANGED <<blocks_json, main_blocks>>
             ELSE /\ main_blocks' = PyList(r.out)
                  /\ blocks_json' = IF Truthy(blocks_json) THEN PyList(r.arg)
                                    ELSE blocks_json
                  /\ pc' = "pruned"
                  /\ UNCHANGED <<exc, stdout>>
  /\ UNCHANGED <<stack, page_data, response, remote, remote_pages, writes,
                 file_blocks>>

\* Lines 90-92: notion_blockify on every block kept.
Blockify ==
  /\ pc = "pruned"
  /\ LET n == Len(main_blocks.v)
         rs == [m \in 1..n |-> notion_blockify(main_blocks.v[m])]
         kept == prune_empty_blocks(file_blocks).kept
         rank(k) == Cardinality({x \in kept : x <= k})
     IN IF \E m \in 1..n : rs[m].raised
        THEN /\ exc' = Raise("AttributeError",
                             "object has no attribute 'get'", 0, "")
             /\ stdout' = Append(stdout, "Error reading JSON")
             /\ pc' = "exit1"
             /\ UNCHANGED <<blocks_json, main_blocks>>
        ELSE /\ main_blocks' = PyList([m \in 1..n |-> rs[m].result])
             /\ blocks_json' =
                  IF Truthy(blocks_json)
                  THEN PyList([k \in 1..Len(blocks_json.v) |->
                                 IF k \in kept THEN rs[rank(k)].block
                                 ELSE blocks_json.v[k]])
                  ELSE blocks_json
             /\ pc' = "loaded"
             /\ UNCHANGED <<exc, stdout>>
  /\ UNCHANGED <<stack, page_data, response, remote, remote_pages, writes,
                 file_blocks>>

-----------------------------------------------------------------------------
(* Inputs of the normalizer: the "blocks" array of an exported JSON file *)

\* Largest number of blocks in a generated raw tree of plain blocks.
MaxRawNodes == 3
\* Largest number of blocks in a generated raw tree of blocks of any form.
MaxRawVaried == 2

Paragraph(rich_text) ==
  PyDict([type |-> PyStr("paragraph"),
          paragraph |-> PyDict([rich_text |-> rich_text])])

\* Plain blocks without children: text, blank text, no text, a divider.
PlainLeafBlocks ==
  { Paragraph(RichText("a")),
    Paragraph(RichText(" ")),
    Paragraph(EmptyList),
    PyDict([type |-> PyStr("divider"), divider |-> EmptyDict]) }

RawLeafBlocks ==
  PlainLeafBlocks \cup
  { Paragraph(PyStr("a")),
    Paragraph(PyList(<<PyDict([plain_text |-> PyStr(""),
                               text |-> PyDict([content |-> PyStr("a")])])>>)),
    PyDict([type |-> PyStr("to_do"),
            to_do |-> PyDict([rich_text |-> RichText(" a ")])]),
    PyDict([type |-> PyStr("to_do"),
            to_do |-> PyDict([rich_text |-> RichText("a"),
                              checked |-> PyBool(TRUE)])]),
    PyDict([type |-> PyStr("code"),
            code |-> PyDict([rich_text |-> RichText("a")])]),
    PyDict([type |-> PyStr("code"),
            code |-> PyDict([rich_text |-> PyList(<<PyDict([plain_text |-> PyStr("")]),
                                                    PyDict([plain_text |-> PyStr("a")])>>),
                             language |-> PyStr("cpp")])]),
    PyStr("a") }

\* Plain blocks without text of their own that carry the child list c:
\* under the top-level key and inside the type payload; a divider that
\* carries c.
PlainParentBlocks(c) ==
  { SetItem(Paragraph(EmptyList), "children", c),
    PyDict([type |-> PyStr("paragraph"),
            paragraph |-> PyDict([rich_text |-> EmptyList, children |-> c])]),
    PyDict([type |-> PyStr("divider"), divider |-> EmptyDict, children |-> c]) }

\* Further forms: c inside the payload next to an empty top-level list,
\* under the top-level key next to a payload list, and without a "type";
\* a paragraph with text that carries c.
RawParentBlocks(c) ==
  PlainParentBlocks(c) \cup
  { PyDict([type |-> PyStr("paragraph"),
            paragraph |-> PyDict([rich_text |-> EmptyList, children |-> c]),
            children |-> EmptyList]),
    PyDict([type |-> PyStr("paragraph"),
            paragraph |-> PyDict([rich_text |-> EmptyList,
                                  children |-> PyList(<<Paragraph(RichText("a"))>>)]),
            children |-> c]),
    PyDict([children |-> c]),
    PyDict([type |-> PyStr("paragraph"),
            paragraph |-> PyDict([rich_text |-> RichText("a"), children |-> c])]) }

\* The sequences of blocks with exactly n blocks in all, and the blocks
\* with exactly n blocks in their subtree; of any form when varied, of
\* the plain forms otherwise.
RECURSIVE RawForestsOfSize(_, _), RawTreesOfSize(_, _)
RawForestsOfSize(n, varied) ==
  IF n = 0 THEN {<<>>}
  ELSE UNION { { <<t>> \o rest : t \in RawTreesOfSize(k, varied),
                                 rest \in RawForestsOfSize(n - k, varied) }
               : k \in 1..n }

RawTreesOfSize(n, varied) ==
  IF n = 1 THEN (IF varied THEN RawLeafBlocks ELSE PlainLeafBlocks)
  ELSE UNION { IF varied THEN RawParentBlocks(PyList(c))
                         ELSE PlainParentBlocks(PyList(c))
               : c \in RawForestsOfSize(n - 1, varied) }

RawInputs(plain, varied) ==
  UNION { { PyList(f) : f \in RawForestsOfSize(n, FALSE) } : n \in 0..plain }
  \cup UNION { { PyList(f) : f \in RawForestsOfSize(n, TRUE) } : n \in 0..varied }
  \cup { PyNone, PyStr("a"), EmptyDict,
         PyList(<<PyDict([type |-> PyStr("paragraph"),
                          paragraph |-> PyStr("a")])>>) }

InitNorm ==
  /\ blocks_json \in RawInputs(MaxRawNodes, MaxRawVaried)
  /\ file_blocks = blocks_json
  /\ main_blocks = PyNone
  /\ pc = "load"
  /\ stack = <<>>
  /\ exc = NoExc
  /\ page_data = NoPage
  /\ response = NoPage
  /\ remote = <<>>
  /\ remote_pages = {}
  /\ writes = <<>>
  /\ stdout = <<>>

NextNorm ==
  \/ Prune
  \/ Blockify

SpecNorm == InitNorm /\ [][NextNorm]_vars

-----------------------------------------------------------------------------
(* C10 *)

\* The child list of a raw block: the list under its top-level "children"
\* key when that list is not empty, else the list inside its type payload.
NodeChildren(b) ==
  LET t == Get(b, "type", PyNone)
      top == Get(b, "children", EmptyList)
      inner == IF t.py = "str" /\ Has(b, t.v) /\ IsDict(b.v[t.v])
               THEN Get(b.v[t.v], "children", EmptyList) ELSE EmptyList
  IN IF IsList(top) /\ Len(top.v) > 0 THEN top.v
     ELSE IF IsList(inner) THEN inner.v ELSE <<>>

\* The rich-text spans of a raw block.
NodeSpans(b) ==
  LET t == Get(b, "type", PyNone)
      rich == IF t.py = "str" /\ Has(b, t.v) /\ IsDict(b.v[t.v])
              THEN Get(b.v[t.v], "rich_text", EmptyList) ELSE EmptyList
  IN IF IsList(rich) THEN rich.v ELSE <<>>

\* The keep-predicate as the specification words it.
RECURSIVE Survives(_)
Survives(b) ==
  \/ Get(b, "type", PyNone) = PyStr("divider")
  \/ \E k \in 1..Len(NodeSpans(b)) : strip(SpanText(NodeSpans(b)[k]).v) # ""
  \/ \E k \in 1..Len(NodeChildren(b)) : Survives(NodeChildren(b)[k])

\* What identifies a block across pruning: its type and its rich text.
NodeSig(b) ==
  [type |-> Get(b, "type", PyNone), spans |-> NodeSpans(b)]

\* The survivors of a raw list, in input order, each with the survivors
\* among its children.
RECURSIVE ExpectedSurvivors(_)
ExpectedSurvivors(raw) ==
  LET kept == SelectSeq(raw, Survives)
  IN [m \in 1..Len(kept) |->
        [sig |-> NodeSig(kept[m]),
         children |-> ExpectedSurvivors(NodeChildren(kept[m]))]]

\* The blocks of a pruned list, each with the blocks under its top-level
\* "children" key.
RECURSIVE PrunedNodes(_)
PrunedNodes(out) ==
  [m \in 1..Len(out) |->
     [sig |-> NodeSig(out[m]),
      children |-> PrunedNodes(Get(out[m], "children", EmptyList).v)]]

\* C10: the output of prune_empty_blocks holds exactly the nodes that are
\* a divider, or have a rich-text span with non-empty trimmed text, or
\* have a surviving child, siblings in their input order.
KeepPredicate ==
  pc = "pruned" =>
    PrunedNodes(main_blocks.v)
      = ExpectedSurvivors(IF IsList(file_blocks) THEN file_blocks.v ELSE <<>>)

IsEmptyLeaf(b, type) ==
  /\ IsDict(b)
  /\ Get(b, "type", PyNone) = PyStr(type)
  /\ NodeChildren(b) = <<>>
  /\ \A k \in 1..Len(NodeSpans(b)) : strip(SpanText(NodeSpans(b)[k]).v) = ""

\* A list with a childless divider and a childless paragraph without text
\* has been pruned: the divider is in the output, the paragraph is not,
\* and another block follows the divider.
DividerKeptParagraphDropped ==
  /\ pc = "pruned"
  /\ IsList(file_blocks)
  /\ \E i, j \in 1..Len(file_blocks.v) :
       /\ IsEmptyLeaf(file_blocks.v[i], "divider")
       /\ IsEmptyLeaf(file_blocks.v[j], "paragraph")
  /\ Len(main_blocks.v) = 2
  /\ Get(main_blocks.v[1], "type", PyNone) = PyStr("divider")
  /\ Get(main_blocks.v[2], "type", PyNone) # PyStr("divider")

-----------------------------------------------------------------------------
(* C11 *)

\* C11: normalizing a tree that is already the output of the normalizer
\* (prune_empty_blocks, then notion_blockify on every top-level block)
\* raises nothing and yields a tree identical to that output.
NormalizeIdempotent ==
  pc = "loaded" =>
    LET again == Normalize(main_blocks)
    IN ~again.raised /\ again.blocks = main_blocks

\* A raw list has been normalized: a block was pruned, a block with
\* children was kept, and the output differs from the raw list.
NormalizedTreeReached ==
  /\ pc = "loaded"
  /\ IsList(file_blocks)
  /\ 0 < Len(main_blocks.v)
  /\ Len(main_blocks.v) < Len(file_blocks.v)
  /\ \E m \in 1..Len(main_blocks.v) : Has(main_blocks.v[m], "children")

-----------------------------------------------------------------------------
(* C12 *)

\* The payload the specification expects for a surviving block of the
\* given type whose raw payload is p.
Defaulted(type, p) ==
  CASE type = PyStr("to_do") ->
         IF Has(p, "checked") THEN p
         ELSE SetItem(p, "checked", PyBool(FALSE))
    [] type = PyStr("code") ->
         IF ~Has(p, "language") THEN SetItem(p, "language", PyStr("plain text"))
         ELSE IF p.v["language"] = PyStr("cpp")
         THEN SetItem(p, "language", PyStr("c++"))
         ELSE p
    [] OTHER -> p

\* The survivors of the raw list and the blocks of the output list agree
\* one by one, at every depth: same type, and the output payload is the
\* raw payload (its child list apart) with the defaults of its type.
RECURSIVE DefaultsHold(_, _)
DefaultsHold(raw, out) ==
  LET kept == SelectSeq(raw, Survives)
  IN /\ Len(kept) = Len(out)
     /\ \A m \in 1..Len(out) :
          LET type == Get(kept[m], "type", PyNone)
          IN /\ Get(out[m], "type", PyStr("?")) = type
             /\ Has(out[m], PayloadKey(type))
             /\ out[m].v[PayloadKey(type)]
                  = Defaulted(type, Pop(TypePayload(kept[m]), "children"))
             /\ DefaultsHold(NodeChildren(kept[m]),
                             Get(out[m], "children", EmptyList).v)

\* C12: in the normalizer's output every surviving to-do block has
\* `checked` (false when unset, else its value), every surviving code
\* block has `language` ("plain text" when unset, "c++" for "cpp"), at
\* every depth, and nothing else in a payload differs from the raw one.
Defaulting ==
  pc = "loaded" =>
    DefaultsHold(IF IsList(file_blocks) THEN file_blocks.v ELSE <<>>,
                 main_blocks.v)

\* A to-do block without `checked`, child of a top-level block, has
\* come out of the normalizer with checked = false.
DefaultedChildReached ==
  /\ pc = "loaded"
  /\ IsList(file_blocks)
  /\ Len(file_blocks.v) = 1
  /\ Len(main_blocks.v) = 1
  /\ LET raw == NodeChildren(file_blocks.v[1])
         out == Get(main_blocks.v[1], "children", EmptyList).v
     IN /\ Len(raw) = 1
        /\ Len(out) = 1
        /\ Get(raw[1], "type", PyNone) = PyStr("to_do")
        /\ ~Has(TypePayload(raw[1]), "checked")
        /\ out[1].v["to_do"].v["checked"] = PyBool(FALSE)

-----------------------------------------------------------------------------
(* C13 *)

\* The survivors of the raw list and the blocks of the output list agree
\* one by one, at every depth: a top-level "children" value is a list
\* that is not empty, no dict inside the block has a "children" key, and
\* the top-level key is there exactly when a child of the raw block
\* survives.
RECURSIVE CanonicalForm(_, _)
CanonicalForm(raw, out) ==
  LET kept == SelectSeq(raw, Survives)
  IN /\ Len(kept) = Len(out)
     /\ \A m \in 1..Len(out) :
          LET b == out[m]
              kids == NodeChildren(kept[m])
          IN /\ Has(b, "children") =>
                  IsList(b.v["children"]) /\ Len(b.v["children"].v) > 0
             /\ \A k \in DOMAIN b.v :
                  IsDict(b.v[k]) => ~Has(b.v[k], "children")
             /\ Has(b, "children") <=>
                  \E k \in 1..Len(kids) : Survives(kids[k])
             /\ CanonicalForm(kids, Get(b, "children", EmptyList).v)

\* C13: in the normalizer's output no block at any depth carries an empty
\* `children` list or a `children` key inside its type payload, and a
\* block has the top-level key exactly when one of its children survived.
CanonicalNoChildren ==
  pc = "loaded" =>
    CanonicalForm(IF IsList(file_blocks) THEN file_blocks.v ELSE <<>>,
                  main_blocks.v)

\* A raw block with an empty top-level child list and a child list in
\* its type payload has come out with its surviving child at the top
\* level.
PayloadChildrenCanonicalized ==
  /\ pc = "loaded"
  /\ IsList(file_blocks)
  /\ Len(file_blocks.v) = 1
  /\ Len(main_blocks.v) = 1
  /\ IsDict(file_blocks.v[1])
  /\ Get(file_blocks.v[1], "children", PyNone) = EmptyList
  /\ Has(TypePayload(file_blocks.v[1]), "children")
  /\ Has(main_blocks.v[1], "children")

-----------------------------------------------------------------------------
(* C14 *)

\* C14: prune_empty_blocks and notion_blockify issue no remote call and
\* leave the raw tree they are given as it was read from the file: no
\* key added to, removed from or rewritten in any input block.
NormalizerPure ==
  /\ writes = <<>>
  /\ remote = <<>>
  /\ blocks_json = file_blocks

\* What does hold: the normalizer issues no remote call, and the list it
\* returns is the one Normalize computes from the raw tree alone.
NormalizerDeterministic ==
  /\ writes = <<>>
  /\ remote = <<>>
  /\ pc = "loaded" => main_blocks = Normalize(file_blocks).blocks

-----------------------------------------------------------------------------
(* C15 *)

\* The run ended on a missing file, unreadable JSON, a missing API key
\* or a missing parent page id: exit code 1 without an exception from
\* the client.
ConfigOrFileError == pc = "exit1" /\ exc = NoExc

\* The block shape was found malformed: upload_blocks_recursively raised
\* its TypeError.
ShapeError == exc.type = "TypeError"

\* Every write was answered with success and no level was given up.
WholeSyncSucceeded ==
  /\ \A n \in 1..Len(writes) : writes[n].status = 200
  /\ ~Printed("Warning: Mismatch in uploaded blocks count")

\* C15: when the input file is missing or unreadable, the JSON or the
\* block shape is malformed, or the API key or the parent id is missing,
\* the run ends with a non-zero exit code and no remote call was made
\* before the error; exit code 0 only when the whole sync succeeded.
InputErrorsPrecedeCalls ==
  /\ ConfigOrFileError => writes = <<>>
  /\ ShapeError => writes = <<>> /\ pc # "exit0"
  /\ pc = "exit0" => WholeSyncSucceeded

\* The parts of it taken one by one.
ConfigErrorsPrecedeCalls == ConfigOrFileError => writes = <<>>
ShapeErrorsPrecedeCalls == ShapeError => writes = <<>>
ShapeErrorsExitNonZero == ShapeError => pc # "exit0"
ExitZeroMeansSynced == pc = "exit0" => WholeSyncSucceeded

-----------------------------------------------------------------------------
(* C16 *)

\* b has a "children" key at its top level and another one inside its
\* type payload.
DoubleKeyed(b) ==
  /\ IsDict(b)
  /\ Has(b, "children")
  /\ LET t == Get(b, "type", PyNone)
     IN /\ t.py = "str"
        /\ Has(b, t.v)
        /\ IsDict(b.v[t.v])
        /\ Has(b.v[t.v], "children")

\* C16: a block with a `children` key at its top level and another one
\* inside its type payload is rejected as invalid input: the uploader
\* does not end a run that was given one with exit code 0, the
\* normalizer does not return a list for it.
DoubleKeyRejected ==
  (/\ IsList(file_blocks)
   /\ \E m \in 1..Len(file_blocks.v) : DoubleKeyed(file_blocks.v[m]))
    => pc \notin {"exit0", "pruned", "loaded"}

-----------------------------------------------------------------------------
(* C17 *)

\* A top-level block of the file has a `children` value, at its top level
\* or inside its type payload, that is not a list.
NonListChildren ==
  /\ IsList(file_blocks)
  /\ \E m \in 1..Len(file_blocks.v) :
       LET b == file_blocks.v[m]
       IN /\ IsDict(b)
          /\ \/ ~IsList(Get(b, "children", EmptyList))
             \/ /\ IsDict(TypePayload(b))
                /\ ~IsList(Get(TypePayload(b), "children", EmptyList))

\* A top-level block of the file has a `rich_text` value that is not a
\* list.
NonListRichText ==
  /\ IsList(file_blocks)
  /\ \E m \in 1..Len(file_blocks.v) :
       LET b == file_blocks.v[m]
       IN /\ IsDict(b)
          /\ IsDict(TypePayload(b))
          /\ ~IsList(Get(TypePayload(b), "rich_text", EmptyList))

\* C17: a value that is not a sequence where a sequence of blocks or of
\* rich-text spans is required (the `blocks` argument, a `children`
\* value, a `rich_text` value) makes the operation raise: the upload does
\* not end with exit code 0 and the normalizer returns no list.
NonSequenceRaises ==
  /\ ~IsList(file_blocks) => pc \notin {"exit0", "pruned", "loaded"}
  /\ NonListChildren => pc \notin {"exit0", "pruned", "loaded"}
  /\ NonListRichText => pc \notin {"pruned", "loaded"}

\* The parts of it taken one by one.
NonListBlocksRaises == ~IsList(file_blocks) => pc \notin {"exit0", "pruned", "loaded"}
NonListRichTextRaises == NonListRichText => pc \notin {"pruned", "loaded"}

-----------------------------------------------------------------------------
(* C18 *)

\* Before the first append write for the children of a block of the level
\* at p, every block of that level was sent, every write of the level was
\* answered with success, and no write of the level comes later; a call
\* that waits for a recursive call has sent its whole level.
LevelsComplete ==
  /\ \A m \in ChildWrites :
       LET p == Front(writes[m].path)
       IN /\ \A n \in AppendWrites :
               writes[n].path = p => n < m /\ writes[n].status = 200
          /\ Len(LevelSent(p, m - 1)) = LevelSize(p)
  /\ \A d \in 1..(Len(stack) - 1) :
       /\ stack[d].phase = "zip"
       /\ stack[d].i >= Len(stack[d].blocks_to_upload)

\* A step issues at most one write, and it leaves the writes issued
\* before, each with its answer, as they are.
OneWriteAtATime ==
  /\ Len(writes') <= Len(writes) + 1
  /\ SubSeq(writes', 1, Len(writes)) = writes

\* C18: all the append writes of a level (all its batches) are issued
\* and answered before the first append write for the children of any
\* of its blocks, and at most one remote write is outstanding at a time.
LevelOrdering == []LevelsComplete /\ [][OneWriteAtATime]_vars

\* The children of a block were uploaded after the level of that block
\* had taken more than one write.
ChildrenAfterBatchedLevel ==
  \E m \in ChildWrites :
    Len(LevelWrites(Front(writes[m].path), m - 1)) > 1

-----------------------------------------------------------------------------
(* C19 *)

\* The list passed to the call for path p has an element that is not a
\* dict.
BadLevel(p) ==
  LET level == Unwrap(ArgValue(blocks_json, p))
  IN /\ IsList(level)
     /\ \E k \in 1..Len(level.v) : ~IsDict(level.v[k])

\* No append write was issued for a list with an element that is not a
\* dict; the call given such a list does not get past its validation,
\* and what leaves it is a TypeError.
BadLevelUnwritten ==
  /\ \A n \in AppendWrites : ~BadLevel(writes[n].path)
  /\ \A d \in 1..Len(stack) :
       BadLevel(stack[d].path) =>
         /\ d = Len(stack)
         /\ stack[d].phase = "enter"
         /\ exc # NoExc => exc.type = "TypeError"

\* The blocks the service holds stay, in their order, whatever happens.
RemoteKept ==
  /\ Len(remote') >= Len(remote)
  /\ SubSeq(remote', 1, Len(remote)) = remote
  /\ exc'.type = "TypeError" => remote' = remote /\ writes' = writes

\* C19: a call of upload_blocks_recursively whose list has an element
\* that is not a dict raises TypeError before it issues any append write
\* for that level, so none of the level's blocks is created; the writes
\* made for ancestor levels and earlier sibling subtrees stay in place.
ValidationPrecedesWriting == []BadLevelUnwritten /\ [][RemoteKept]_vars

\* A nested list whose second element is not a dict has raised its
\* TypeError, with the level above it already written.
NestedBadLevelRaised ==
  /\ stack # <<>>
  /\ exc.type = "TypeError"
  /\ Len(Top.path) > 0
  /\ BadLevel(Top.path)
  /\ IsDict(Unwrap(ArgValue(blocks_json, Top.path)).v[1])
  /\ AppendWrites # {}
  /\ remote # <<>>

-----------------------------------------------------------------------------
(* C20 *)

\* The writes a sibling list of size n takes.
GroupSize(n) == IF n = 0 THEN 0 ELSE CeilDiv(n, batch_size)

\* The child lists a block holds: under its top-level key and inside its
\* type payload.
TopChildren(b) ==
  IF IsDict(b) /\ Has(b, "children") /\ IsList(b.v["children"])
  THEN b.v["children"].v ELSE <<>>

PayloadChildren(b) ==
  IF IsDict(b) /\ IsDict(TypePayload(b))
     /\ IsList(Get(TypePayload(b), "children", PyNone))
  THEN TypePayload(b).v["children"].v ELSE <<>>

\* The sum of GroupSize over the sibling lists of the forest `blocks`.
RECURSIVE ExpectedWrites(_)
ExpectedWrites(blocks) ==
  LET below(b) == ExpectedWrites(TopChildren(b))
                  + ExpectedWrites(PayloadChildren(b))
      sum[m \in 0..Len(blocks)] ==
        IF m = 0 THEN 0 ELSE sum[m - 1] + below(blocks[m])
  IN GroupSize(Len(blocks)) + sum[Len(blocks)]

\* The list of top-level blocks of the input.
TopLevel ==
  LET blocks == IF IsDict(blocks_json) THEN Unwrap(blocks_json)
                ELSE blocks_json
  IN IF IsList(blocks) THEN blocks.v ELSE <<>>

NoEmptyAppend ==
  \A n \in AppendWrites : Len(writes[n].payload.v["children"].v) > 0

\* C20: against a service that answers every write with success and one
\* created block per submitted block, the run ends and the append writes
\* issued are ceil(n/100) per non-empty sibling list of size n of the
\* tree; no append write carries zero children, also when `blocks` is an
\* empty list or a dict whose `children` is empty or absent.
WritesMatchTree ==
  /\ NoEmptyAppend
  /\ (pc = "exit0" /\ ServiceInOrder)
       => Cardinality(AppendWrites) = ExpectedWrites(TopLevel)

\* The same count for the trees in which no block has both keys.
WritesMatchSingleKeyTree ==
  (pc = "exit0" /\ ServiceInOrder /\ SingleChildKey(TopLevel))
    => Cardinality(AppendWrites) = ExpectedWrites(TopLevel)

\* Every step of the program that can be taken is taken in the end.
FairSpec == Spec /\ WF_vars(Next)

\* The run ends.
Terminates == <>(pc \in {"exit0", "exit1"})


====
